---------------------------- MODULE Spec2Model ----------------------------
(***************************************************************************)
(* A model of AssetService (server/src/domain/asset/asset.service.ts):     *)
(* getDownloadInfo with getDownloadAssets, downloadArchive and             *)
(* getMemoryLane.  One request is modelled per behaviour; a step is the    *)
(* synchronous code between two awaits.  The asset repository, the access  *)
(* gate and the zip writer are collaborators: the calls made to them are   *)
(* recorded in `calls`, in call order.                                     *)
(***************************************************************************)
EXTENDS Integers, Sequences, FiniteSets, TLC

VARIABLES
  op,         \* the service method of this request
  pc,         \* where the request is: "start", an await, or "done"
  dto,        \* the request's dto
  repo,       \* assetRepository: the stored assets, in store order
  calls,      \* calls made so far to the repository, the gate and the zip
  outcome,    \* pending, the returned value, or the exception thrown
  targetSize, \* getDownloadInfo: const targetSize
  objs,       \* getDownloadInfo: the DownloadArchiveInfo objects allocated
  archive,    \* getDownloadInfo: let archive (a reference into objs)
  archives,   \* getDownloadInfo: const archives (a list of references)
  assets,     \* getDownloadInfo: the page held by the for-await loop
  pager,      \* getDownloadInfo: the state of the page generator
  requests,   \* getMemoryLane: the state of each onRequest(i) promise
  settled,    \* getMemoryLane: the indices i in the order they settled
  gate        \* the access gate: "unasked", "asked", "granted" or "rejected"

vars == <<op, pc, dto, repo, calls, outcome, targetSize, objs, archive,
          archives, assets, pager, requests, settled, gate>>

----------------------------------------------------------------------------
(* Bounds of the model.                                                    *)

\* the largest number of assets in the album / library / id list
MaxAssets == 3

\* PAGINATION_SIZE of getDownloadAssets (2500 in the source), scaled down so
\* that a library of MaxAssets assets spans several pages
PAGINATION_SIZE == 2

\* the largest dto.years of a getMemoryLane request
MaxYears == 3

----------------------------------------------------------------------------
(* Values.                                                                 *)

\* an optional value: undefined / null, or a value
None == [some |-> FALSE]

Some(v) == [some |-> TRUE, val |-> v]

Range(s) == {s[i] : i \in 1..Len(s)}

Min(a, b) == IF a < b THEN a ELSE b

\* byte sizes are counted in MiB, so that 4 GiB fits a machine integer
HumanReadableSize_GiB == 1024

\* exifInfo.fileSizeInByte of the modelled assets: unknown, or known
FileSizes == {None, Some(1), Some(2)}

\* dto.archiveSize of the modelled requests
ArchiveSizes == {None, Some(0), Some(0 - 1), Some(1)}

\* the id of an asset that is in the store but in no album, library or id list
ExtraId == MaxAssets + 1

\* JavaScript truthiness of an optional number: undefined and 0 are falsy
TruthyNumber(o) == o.some /\ o.val # 0

\* JavaScript truthiness of an optional array or of an optional non-empty id
TruthyRef(o) == o.some

\* asset.exifInfo?.fileSizeInByte || 0
FileSizeInByte(asset) ==
  IF TruthyNumber(asset.fileSizeInByte) THEN asset.fileSizeInByte.val ELSE 0

----------------------------------------------------------------------------
(* The asset repository.                                                   *)

\* assetRepository.getByIds(ids): the stored assets with one of the ids
getByIds(ids) == SelectSeq(repo, LAMBDA a : a.id \in Range(ids))

\* the assets of the album and of the user's library: all but the extra one
Library == SelectSeq(repo, LAMBDA a : a.id # ExtraId)

\* one page of a paginated query: getByAlbumId / getByUserId with
\* pagination = {take, skip}
Paginate(items, take, skip) ==
  [items |-> SubSeq(items, skip + 1, Min(skip + take, Len(items))),
   hasNextPage |-> Len(items) > skip + take]

Call(fn, arg) == [fn |-> fn, arg |-> arg]

StoreReads == {"getByIds", "getByAlbumId", "getByUserId", "getByDate"}

ZipCalls == {"createZipStream", "addFile", "finalize"}

----------------------------------------------------------------------------
(* getDownloadInfo: lines 173-205, and getDownloadAssets: lines 231-256.   *)

\* lines 187-193: one iteration of for (const asset of assets); st holds
\* objs, archive and archives
PackAsset(st, asset, target) ==
  LET cur  == st.objs[st.archive]
      upd  == [size |-> cur.size + FileSizeInByte(asset),
               assetIds |-> Append(cur.assetIds, asset.id)]
      objs1 == [st.objs EXCEPT ![st.archive] = upd]
  IN IF upd.size > target
       THEN [objs |-> Append(objs1, [size |-> 0, assetIds |-> <<>>]),
             archive |-> Len(objs1) + 1,
             archives |-> Append(st.archives, st.archive)]
       ELSE [objs |-> objs1, archive |-> st.archive, archives |-> st.archives]

\* lines 186-194: for (const asset of assets) { ... }
RECURSIVE PackAssets(_, _, _)
PackAssets(st, list, target) ==
  IF list = <<>> THEN st
  ELSE PackAssets(PackAsset(st, Head(list), target), Tail(list), target)

\* a variant of PushPending: the open accumulator is pushed at the end of
\* a page whether or not it holds an id
PushPending_Unguarded(st) ==
  [st EXCEPT !.archives = Append(st.archives, st.archive)]

\* lines 196-198: if (archive.assetIds.length > 0) archives.push(archive)
PushPending(st) ==
  IF Len(st.objs[st.archive].assetIds) > 0
    THEN [st EXCEPT !.archives = Append(st.archives, st.archive)]
    ELSE st

\* lines 186-198: the part of the loop body after the motion lookup
PackPage(st, list, target) == PushPending(PackAssets(st, list, target))

\* line 181: the livePhotoVideoIds of the page that are truthy
MotionIds(list) ==
  LET withMotion == SelectSeq(list, LAMBDA a : TruthyRef(a.livePhotoVideoId))
  IN [i \in 1..Len(withMotion) |-> withMotion[i].livePhotoVideoId.val]

\* line 202: archives.reduce((total, item) => (total += item.size), 0)
RECURSIVE TotalSize(_, _)
TotalSize(heap, refs) ==
  IF refs = <<>> THEN 0 ELSE heap[Head(refs)].size + TotalSize(heap, Tail(refs))

\* lines 201-204: the DownloadResponseDto
DownloadResponse(st) ==
  [totalSize |-> TotalSize(st.objs, st.archives),
   archives |-> [i \in 1..Len(st.archives) |-> st.objs[st.archives[i]]]]

\* a variant of Mode: a request without selection falls back to the
\* library of the user, as getTimeBuckets does with userId || authUser.id
Mode_DefaultsToUser(d) ==
  IF TruthyRef(d.assetIds) THEN "assetIds"
  ELSE IF TruthyRef(d.albumId) THEN "albumId"
  ELSE "userId"

\* a variant of Mode: the identifiers are tested in the opposite order
Mode_OwnerFirst(d) ==
  IF TruthyRef(d.userId) THEN "userId"
  ELSE IF TruthyRef(d.albumId) THEN "albumId"
  ELSE IF TruthyRef(d.assetIds) THEN "assetIds"
  ELSE "none"

\* lines 234, 243, 249: the selection mode of the dto
Mode(d) ==
  IF TruthyRef(d.assetIds) THEN "assetIds"
  ELSE IF TruthyRef(d.albumId) THEN "albumId"
  ELSE IF TruthyRef(d.userId) THEN "userId"
  ELSE "none"

\* lines 236, 245, 251: the permission each mode requires
Permission(mode) ==
  CASE mode = "assetIds" -> "ASSET_DOWNLOAD"
    [] mode = "albumId" -> "ALBUM_DOWNLOAD"
    [] mode = "userId" -> "LIBRARY_DOWNLOAD"

\* lines 237, 246, 252: the repository read of each mode
PageCall(mode, skip) ==
  CASE mode = "assetIds" -> Call("getByIds", dto.assetIds.val)
    [] mode = "albumId" -> Call("getByAlbumId", skip)
    [] mode = "userId" -> Call("getByUserId", skip)

\* a variant of NextPageCalls: the permission is required inside the
\* pagination callback, so once for every page
NextPageCalls_CheckedPerPage(mode, skip) ==
  <<Call("requirePermission", Permission(mode)), PageCall(mode, skip)>>

\* lines 246, 252: what the generator calls to produce its next page: the
\* pagination callback alone
NextPageCalls(mode, skip) == <<PageCall(mode, skip)>>

\* lines 173-178 up to the first await: lines 234-236, 243-245, 249-251, 255
getDownloadInfo ==
  /\ op = "getDownloadInfo" /\ pc = "start"
  /\ targetSize' = (IF TruthyNumber(dto.archiveSize)
                      THEN dto.archiveSize.val ELSE HumanReadableSize_GiB * 4)
  /\ archives' = <<>>
  /\ objs' = <<[size |-> 0, assetIds |-> <<>>]>>
  /\ archive' = 1
  /\ IF Mode(dto) = "none"
       THEN /\ pc' = "done"
            /\ outcome' = [kind |-> "thrown", error |-> "BadRequestException"]
            /\ calls' = calls
       ELSE /\ pc' = "awaitPermission"
            /\ calls' = Append(calls, Call("requirePermission", Permission(Mode(dto))))
            /\ outcome' = outcome
  /\ UNCHANGED <<op, dto, repo, assets, pager, requests, settled>>
  /\ gate' = (IF Mode(dto) = "none" THEN gate ELSE "asked")

\* lines 208, 236, 245, 251: the awaited requirePermission rejects
PermissionDenied ==
  /\ op \in {"getDownloadInfo", "downloadArchive"} /\ pc = "awaitPermission"
  /\ pc' = "done"
  /\ outcome' = [kind |-> "thrown", error |-> "AccessDenied"]
  /\ UNCHANGED <<op, dto, repo, calls, targetSize, objs, archive, archives,
                 assets, pager, requests, settled>>
  /\ gate' = "rejected"

\* lines 237, 246, 252 and the first next() of the for-await of line 179:
\* the awaited requirePermission resolves and the first read is issued
PermissionGranted ==
  /\ op = "getDownloadInfo" /\ pc = "awaitPermission"
  /\ pc' = "awaitPage"
  /\ pager' = [skip |-> 0, hasNextPage |-> TRUE]
  /\ calls' = calls \o NextPageCalls(Mode(dto), 0)
  /\ UNCHANGED <<op, dto, repo, outcome, targetSize, objs, archive, archives,
                 assets, requests, settled>>
  /\ gate' = "granted"

\* the page the pending read delivers, and whether another one follows
NextPage ==
  IF Mode(dto) = "assetIds"
    THEN [items |-> getByIds(dto.assetIds.val), hasNextPage |-> FALSE]
    ELSE Paginate(Library, PAGINATION_SIZE, pager.skip)

\* line 179 after the loop body: the generator is asked for the next page,
\* or the loop ends and lines 201-204 return
Continue(st) ==
  /\ objs' = st.objs
  /\ archive' = st.archive
  /\ archives' = st.archives
  /\ IF pager'.hasNextPage
       THEN /\ pc' = "awaitPage"
            /\ outcome' = outcome
       ELSE /\ pc' = "done"
            /\ outcome' = [kind |-> "returned", value |-> DownloadResponse(st)]

\* a variant of MotionLookupCalls: the generator reads ahead, so the next
\* page is requested as soon as a page is handed over
MotionLookupCalls_ReadsAhead(motionIds) ==
  IF NextPage.hasNextPage
    THEN <<PageCall(Mode(dto), pager.skip + PAGINATION_SIZE),
           Call("getByIds", motionIds)>>
    ELSE <<Call("getByIds", motionIds)>>

\* lines 182-183: what is called when a page with motion ids has arrived:
\* the lookup of the motion assets, and nothing else until it resolves
MotionLookupCalls(motionIds) == <<Call("getByIds", motionIds)>>

\* lines 179-184: a page arrives; with motion ids the lookup of line 183 is
\* issued, without them lines 186-198 run at once
PageArrives ==
  /\ op = "getDownloadInfo" /\ pc = "awaitPage"
  /\ LET page == NextPage
         motionIds == MotionIds(page.items)
         st == [objs |-> objs, archive |-> archive, archives |-> archives]
     IN IF Len(motionIds) > 0
          THEN /\ assets' = page.items
               /\ pager' = [skip |-> pager.skip, hasNextPage |-> page.hasNextPage]
               /\ pc' = "awaitMotion"
               /\ calls' = calls \o MotionLookupCalls(motionIds)
               /\ UNCHANGED <<outcome, objs, archive, archives>>
          ELSE /\ assets' = page.items
               /\ pager' = [skip |-> pager.skip + PAGINATION_SIZE,
                            hasNextPage |-> page.hasNextPage]
               /\ calls' = (IF page.hasNextPage
                              THEN calls \o NextPageCalls(Mode(dto), pager'.skip)
                              ELSE calls)
               /\ Continue(PackPage(st, page.items, targetSize))
  /\ UNCHANGED <<op, dto, repo, targetSize, requests, settled, gate>>

\* lines 183-198: the motion assets arrive and are pushed onto the page,
\* then the page is packed
MotionArrives ==
  /\ op = "getDownloadInfo" /\ pc = "awaitMotion"
  /\ LET list == assets \o getByIds(MotionIds(assets))
         st == [objs |-> objs, archive |-> archive, archives |-> archives]
     IN /\ assets' = list
        /\ pager' = [pager EXCEPT !.skip = pager.skip + PAGINATION_SIZE]
        /\ calls' = (IF pager.hasNextPage
                       THEN calls \o NextPageCalls(Mode(dto), pager'.skip)
                       ELSE calls)
        /\ Continue(PackPage(st, list, targetSize))
  /\ UNCHANGED <<op, dto, repo, targetSize, requests, settled, gate>>

----------------------------------------------------------------------------
(* downloadArchive: lines 207-229.                                         *)

\* the last index of s that holds c, or 0
LastIndexOf(s, c) ==
  LET at == {i \in 1..Len(s) : s[i] = c}
  IN IF at = {} THEN 0 ELSE CHOOSE i \in at : \A j \in at : j <= i

\* the part of a path after its last "/"
BaseName(path) == SubSeq(path, LastIndexOf(path, "/") + 1, Len(path))

\* the characters of a string, put together
RECURSIVE Str(_)
Str(chars) == IF chars = <<>> THEN "" ELSE Head(chars) \o Str(Tail(chars))

\* line 215: extname of node's path module: from the last "." of the
\* basename to its end; "" without a dot, for a leading dot and for ".."
extname(path) ==
  LET base == BaseName(path)
      dot  == LastIndexOf(base, ".")
  IN IF dot <= 1 \/ base = <<".", ".">>
       THEN ""
       ELSE Str(SubSeq(base, dot, Len(base)))

\* line 217: paths[filename] || 0
PathCount(paths, filename) ==
  IF filename \in DOMAIN paths THEN paths[filename] ELSE 0

\* a variant of EntryName: the suffix counts the occurrence itself, so the
\* second asset of a base name gets +2
EntryName_CountsOccurrences(originalFileName, ext, count) ==
  IF count # 0
    THEN originalFileName \o "+" \o ToString(count + 1) \o ext
    ELSE originalFileName \o ext

\* lines 216-221: the entry name of an asset, given the count of its base name
EntryName(originalFileName, ext, count) ==
  IF count # 0
    THEN originalFileName \o "+" \o ToString(count) \o ext
    ELSE originalFileName \o ext

\* lines 215-223: one iteration of the loop; st holds paths and the
\* zip.addFile calls made so far
AddAsset(st, asset) ==
  LET ext      == extname(asset.originalPath)
      base     == asset.originalFileName \o ext
      count    == PathCount(st.paths, base)
      filename == EntryName(asset.originalFileName, ext, count)
  IN [paths |-> [f \in DOMAIN st.paths \cup {base} |->
                   IF f = base THEN count + 1 ELSE st.paths[f]],
      added |-> Append(st.added,
                       Call("addFile", [path |-> asset.originalPath,
                                        name |-> filename]))]

\* lines 212-224: const paths = {}; for (const {...} of assets) { ... }
RECURSIVE AddAssets(_, _)
AddAssets(st, list) ==
  IF list = <<>> THEN st ELSE AddAssets(AddAsset(st, Head(list)), Tail(list))

\* a variant of AddFileCalls: an asset whose base name was seen before is
\* not added to the zip
AddFileCalls_SkipsRepeatedNames(list) ==
  LET all == AddAssets([paths |-> <<>>, added |-> <<>>], list).added
      idx == SelectSeq([i \in 1..Len(list) |-> i],
                       LAMBDA i : all[i].arg.name =
                                    list[i].originalFileName
                                      \o extname(list[i].originalPath))
  IN [k \in 1..Len(idx) |-> all[idx[k]]]

\* lines 212-224: the zip.addFile calls of the loop, in order
AddFileCalls(list) == AddAssets([paths |-> <<>>, added |-> <<>>], list).added

\* lines 207-208 up to the await
downloadArchive ==
  /\ op = "downloadArchive" /\ pc = "start"
  /\ pc' = "awaitPermission"
  /\ calls' = Append(calls, Call("requirePermission", "ASSET_DOWNLOAD"))
  /\ UNCHANGED <<op, dto, repo, outcome, targetSize, objs, archive, archives,
                 assets, pager, requests, settled>>
  /\ gate' = "asked"

\* lines 210-211: the permission is granted; the zip stream is created and
\* the assets are read
ArchivePermissionGranted ==
  /\ op = "downloadArchive" /\ pc = "awaitPermission"
  /\ pc' = "awaitAssets"
  /\ calls' = calls \o <<Call("createZipStream", <<>>),
                         Call("getByIds", dto.assetIds)>>
  /\ UNCHANGED <<op, dto, repo, outcome, targetSize, objs, archive, archives,
                 assets, pager, requests, settled>>
  /\ gate' = "granted"

\* lines 211-228: the assets arrive, each is added, the zip is finalized and
\* its stream returned
ArchiveAssetsArrive ==
  /\ op = "downloadArchive" /\ pc = "awaitAssets"
  /\ assets' = getByIds(dto.assetIds)
  /\ calls' = calls \o AddFileCalls(assets') \o <<Call("finalize", <<>>)>>
  /\ pc' = "done"
  /\ outcome' = [kind |-> "returned", value |-> "zip.stream"]
  /\ UNCHANGED <<op, dto, repo, targetSize, objs, archive, archives, pager,
                 requests, settled, gate>>

----------------------------------------------------------------------------
(* getMemoryLane: lines 128-145.                                           *)

\* assetRepository.getByDate(userId, date): the assets created on the date;
\* dates are counted in years
getByDate(date) == SelectSeq(repo, LAMBDA a : a.fileCreatedAt = date)

\* mapAsset: the response view of an asset
mapAsset(a) == [id |-> a.id]

\* line 134: `${yearsAgo} year${yearsAgo > 1 ? 's' : ''} since...`
Title(yearsAgo) ==
  ToString(yearsAgo) \o " year" \o (IF yearsAgo > 1 THEN "s" ELSE "")
    \o " since..."

\* lines 133-136: what onRequest(yearsAgo) resolves to
onRequest(yearsAgo, found) ==
  [title |-> Title(yearsAgo),
   assets |-> [i \in 1..Len(found) |-> mapAsset(found[i])]]

\* a variant of PromiseAll: the values are collected as the promises
\* settle, in settling order
PromiseAll_InSettlingOrder(reqs, order) ==
  [k \in 1..Len(reqs) |-> reqs[order[k]].value]

\* line 144: the array Promise.all resolves to: the value of each promise,
\* at the index of the promise, whatever the order they settled in
PromiseAll(reqs, order) == [i \in 1..Len(reqs) |-> reqs[i].value]

\* line 144: results.filter((result) => result.assets.length > 0)
FilterResults(results) == SelectSeq(results, LAMBDA r : Len(r.assets) > 0)

\* a variant of PromiseAllReject: the rejection is swallowed, as with
\* Promise.allSettled
PromiseAllReject_Swallowed(cur, i) == cur

\* line 144: what a rejection of onRequest(i) does to the Promise.all that
\* is still pending: it rejects with that error
PromiseAllReject(cur, i) ==
  IF cur.kind = "pending" THEN [kind |-> "thrown", error |-> i] ELSE cur

\* line 144: what a fulfilment does to the Promise.all: once every promise
\* is fulfilled it resolves, and .then returns the filtered results
PromiseAllFulfil(cur, reqs, order) ==
  IF cur.kind = "pending" /\ \A j \in 1..Len(reqs) : reqs[j].state = "fulfilled"
    THEN [kind |-> "returned", value |-> FilterResults(PromiseAll(reqs, order))]
    ELSE cur

\* a variant of StartRequests: the loop runs from 0 to years - 1
StartRequests_FromZero(n) ==
  [i \in 1..n |-> Call("getByDate", dto.timestamp - (i - 1))]

\* lines 139-142 with line 132: the getByDate call each onRequest(i) makes
\* before it suspends, for i = 1..years
StartRequests(n) == [i \in 1..n |-> Call("getByDate", dto.timestamp - i)]

\* lines 129-144 up to the await: every onRequest(i) runs to its await of
\* getByDate, in the order i = 1..years; Promise.all of no promise resolves
getMemoryLane ==
  /\ op = "getMemoryLane" /\ pc = "start"
  /\ LET n == IF dto.years >= 1 THEN dto.years ELSE 0
     IN /\ requests' = [i \in 1..n |-> [state |-> "pending"]]
        /\ calls' = calls \o StartRequests(n)
        /\ IF n = 0
             THEN /\ pc' = "done"
                  /\ outcome' = [kind |-> "returned",
                                 value |-> FilterResults(<<>>)]
             ELSE /\ pc' = "awaitAll"
                  /\ outcome' = outcome
  /\ UNCHANGED <<op, dto, repo, targetSize, objs, archive, archives, assets,
                 pager, settled, gate>>

\* line 132: the getByDate of onRequest(i) resolves
LookupFulfils(i) ==
  /\ op = "getMemoryLane" /\ pc # "start"
  /\ i \in 1..Len(requests) /\ requests[i].state = "pending"
  /\ requests' = [requests EXCEPT ![i] =
                    [state |-> "fulfilled",
                     value |-> onRequest(i, getByDate(dto.timestamp - i))]]
  /\ settled' = Append(settled, i)
  /\ outcome' = PromiseAllFulfil(outcome, requests', settled')
  /\ pc' = IF outcome'.kind = "pending" THEN pc ELSE "done"
  /\ UNCHANGED <<op, dto, repo, calls, targetSize, objs, archive, archives,
                 assets, pager, gate>>

\* line 132: the getByDate of onRequest(i) rejects
LookupRejects(i) ==
  /\ op = "getMemoryLane" /\ pc # "start"
  /\ i \in 1..Len(requests) /\ requests[i].state = "pending"
  /\ requests' = [requests EXCEPT ![i] = [state |-> "rejected", error |-> i]]
  /\ settled' = Append(settled, i)
  /\ outcome' = PromiseAllReject(outcome, i)
  /\ pc' = "done"
  /\ UNCHANGED <<op, dto, repo, calls, targetSize, objs, archive, archives,
                 assets, pager, gate>>

----------------------------------------------------------------------------
(* The requests and stores of the model.                                   *)

Asset(id, size, motion) ==
  [id |-> id, fileSizeInByte |-> size, livePhotoVideoId |-> motion,
   originalPath |-> <<>>, originalFileName |-> "", fileCreatedAt |-> 0]

\* a live photo of a library of n assets: none (<<0, 0>>), or asset p whose
\* motion part m is another asset of the library or the extra asset
LivePhotos(n) ==
  {<<0, 0>>}
    \cup {pm \in (1..n) \X ((1..n) \cup {ExtraId}) : pm[1] # pm[2]}

\* the stores with a library of n assets and at most one live photo
Repos(n) ==
  UNION {
    LET lib == [i \in 1..n |->
                  Asset(i, sz[i], IF lp[1] = i THEN Some(lp[2]) ELSE None)]
    IN IF lp[1] # 0 /\ lp[2] = ExtraId
         THEN {Append(lib, Asset(ExtraId, x, None)) : x \in FileSizes}
         ELSE {lib}
    : sz \in [1..n -> FileSizes], lp \in LivePhotos(n)}

DownloadDtos(n) ==
  [assetIds : {None, Some([i \in 1..n |-> i])},
   albumId : {None, Some("album")},
   userId : {None, Some("user")},
   archiveSize : ArchiveSizes]

InitInfo ==
  /\ op = "getDownloadInfo"
  /\ pc = "start"
  /\ \E n \in 0..MaxAssets :
       /\ repo \in Repos(n)
       /\ dto \in DownloadDtos(n)
  /\ calls = <<>>
  /\ outcome = [kind |-> "pending"]
  /\ targetSize = 0
  /\ objs = <<>>
  /\ archive = 0
  /\ archives = <<>>
  /\ assets = <<>>
  /\ pager = [skip |-> 0, hasNextPage |-> FALSE]
  /\ requests = <<>>
  /\ settled = <<>>
  /\ gate = "unasked"

NextInfo ==
  \/ getDownloadInfo
  \/ PermissionDenied
  \/ PermissionGranted
  \/ PageArrives
  \/ MotionArrives

SpecInfo == InitInfo /\ [][NextInfo]_vars

\* the display names and the paths of the assets of a downloadArchive request
OriginalFileNames == {"IMG_0001", "IMG_0001+1", "b"}

OriginalPaths ==
  {<<"/", "u", "/", "x", ".", "j", "p", "g">>,
   <<"/", "u", "/", "y", ".", "m", "o", "v">>,
   <<"/", "u", ".", "d", "/", "z">>}

\* the stores of n assets; the id n + 1 is in no store
ArchiveRepos(n) ==
  {[i \in 1..n |-> [Asset(i, None, None) EXCEPT
                      !.originalFileName = nm[i], !.originalPath = pt[i]]]
    : nm \in [1..n -> OriginalFileNames], pt \in [1..n -> OriginalPaths]}

InitArchive ==
  /\ op = "downloadArchive"
  /\ pc = "start"
  /\ \E n \in 0..MaxAssets :
       /\ repo \in ArchiveRepos(n)
       /\ dto \in {[assetIds |-> [i \in 1..k |-> i]] : k \in {n, n + 1}}
  /\ calls = <<>>
  /\ outcome = [kind |-> "pending"]
  /\ targetSize = 0
  /\ objs = <<>>
  /\ archive = 0
  /\ archives = <<>>
  /\ assets = <<>>
  /\ pager = [skip |-> 0, hasNextPage |-> FALSE]
  /\ requests = <<>>
  /\ settled = <<>>
  /\ gate = "unasked"

NextArchive ==
  \/ downloadArchive
  \/ PermissionDenied
  \/ ArchivePermissionGranted
  \/ ArchiveAssetsArrive

SpecArchive == InitArchive /\ [][NextArchive]_vars

\* the stores of a getMemoryLane request made in year `anchor`: for every
\* yearsAgo of a set, one asset created that many years before
LaneRepos(anchor) ==
  {LET years == SelectSeq([i \in 1..MaxYears |-> i], LAMBDA y : y \in S)
   IN [i \in 1..Len(years) |->
         [Asset(years[i], None, None) EXCEPT !.fileCreatedAt = anchor - years[i]]]
    : S \in SUBSET (1..MaxYears)}

InitLane ==
  /\ op = "getMemoryLane"
  /\ pc = "start"
  /\ \E anchor \in {2023} :
       /\ repo \in LaneRepos(anchor)
       /\ dto \in [timestamp : {anchor}, years : (0 - 1)..MaxYears]
  /\ calls = <<>>
  /\ outcome = [kind |-> "pending"]
  /\ targetSize = 0
  /\ objs = <<>>
  /\ archive = 0
  /\ archives = <<>>
  /\ assets = <<>>
  /\ pager = [skip |-> 0, hasNextPage |-> FALSE]
  /\ requests = <<>>
  /\ settled = <<>>
  /\ gate = "unasked"

NextLane ==
  \/ getMemoryLane
  \/ \E i \in 1..MaxYears : LookupFulfils(i)
  \/ \E i \in 1..MaxYears : LookupRejects(i)

SpecLane == InitLane /\ [][NextLane]_vars

Init == InitInfo \/ InitArchive \/ InitLane

Next ==
  \/ getDownloadInfo
  \/ PermissionDenied
  \/ PermissionGranted
  \/ PageArrives
  \/ MotionArrives
  \/ downloadArchive
  \/ ArchivePermissionGranted
  \/ ArchiveAssetsArrive
  \/ getMemoryLane
  \/ \E i \in 1..MaxYears : LookupFulfils(i)
  \/ \E i \in 1..MaxYears : LookupRejects(i)

Spec == Init /\ [][Next]_vars

----------------------------------------------------------------------------
(* What the claims speak of.                                               *)

Count(x, seq) == Cardinality({i \in 1..Len(seq) : seq[i] = x})

RECURSIVE Flatten(_)
Flatten(seqs) == IF seqs = <<>> THEN <<>> ELSE Head(seqs) \o Flatten(Tail(seqs))

RECURSIVE SumBytes(_)
SumBytes(list) ==
  IF list = <<>> THEN 0 ELSE FileSizeInByte(Head(list)) + SumBytes(Tail(list))

RECURSIVE SumSizes(_)
SumSizes(list) == IF list = <<>> THEN 0 ELSE Head(list).size + SumSizes(Tail(list))

\* getDownloadInfo has returned its DownloadResponseDto
InfoReturned == op = "getDownloadInfo" /\ outcome.kind = "returned"

\* the ids of the assets the pages deliver: those of the album, the library
\* or the id list
InputIds == {Library[i].id : i \in 1..Len(Library)}

\* the asset ids of all returned archives, in order
ReturnedIds ==
  Flatten([i \in 1..Len(outcome.value.archives) |->
             outcome.value.archives[i].assetIds])

CallsNamed(fns) == {i \in 1..Len(calls) : calls[i].fn \in fns}

\* the entry names handed to zip.addFile, in call order
EntryNames ==
  LET at == SelectSeq(calls, LAMBDA c : c.fn = "addFile")
  IN [i \in 1..Len(at) |-> at[i].arg.name]

----------------------------------------------------------------------------
(* The claims.                                                             *)

\* C1: with a threshold above 0, every asset id of the input is in the
\* assetIds of the returned archives exactly once: none is missing and none
\* occurs twice, within one archive or across two entries of the list.
C1_EveryIdInExactlyOneArchive ==
  (InfoReturned /\ targetSize > 0) =>
    \A id \in InputIds : Count(id, ReturnedIds) = 1

\* C2: every returned archive but the last has a size above the threshold.
C2_AllButLastAboveThreshold ==
  InfoReturned =>
    \A i \in 1..(Len(outcome.value.archives) - 1) :
      outcome.value.archives[i].size > targetSize

\* C3: an asset with a livePhotoVideoId and the motion asset it refers to
\* are in the assetIds of one and the same returned archive.
C3_LivePhotoWithItsMotion ==
  InfoReturned =>
    \A k \in 1..Len(Library) :
      TruthyRef(Library[k].livePhotoVideoId) =>
        \E i \in 1..Len(outcome.value.archives) :
          {Library[k].id, Library[k].livePhotoVideoId.val}
            \subseteq Range(outcome.value.archives[i].assetIds)

\* C4: with known sizes and a threshold above 0, totalSize is the sum of the
\* sizes of the returned archives, and that is the sum of the byte sizes of
\* the input assets, each counted once (the assets of the pages, with or
\* without the motion assets looked up for them).
C4_TotalSizeIsInputSize ==
  (InfoReturned /\ targetSize > 0
     /\ \A k \in 1..Len(repo) : repo[k].fileSizeInByte.some) =>
    /\ outcome.value.totalSize = SumSizes(outcome.value.archives)
    /\ outcome.value.totalSize \in {SumBytes(Library), SumBytes(repo)}

\* C5: getDownloadInfo with none of assetIds, albumId and userId fails with
\* the invalid-request error; no repository read has been made and no
\* DownloadInfo is returned.
C5_NoSelectionIsInvalidRequest ==
  (op = "getDownloadInfo" /\ ~dto.assetIds.some /\ ~dto.albumId.some
     /\ ~dto.userId.some) =>
    /\ CallsNamed(StoreReads) = {}
    /\ outcome.kind # "returned"
    /\ pc # "start" =>
         /\ pc = "done"
         /\ outcome = [kind |-> "thrown", error |-> "BadRequestException"]

C5_Witness ==
  /\ op = "getDownloadInfo" /\ pc = "done"
  /\ ~dto.assetIds.some /\ ~dto.albumId.some /\ ~dto.userId.some
  /\ outcome.kind = "thrown"
  /\ Len(repo) > 0

\* C6: in getDownloadInfo with a selection and in downloadArchive,
\* requirePermission is called exactly once, before every repository read
\* and every zip call; when the gate rejects, the request fails with that
\* rejection and no repository read and no zip call is made.
C6_PermissionOnceAndFirst ==
  (op \in {"getDownloadInfo", "downloadArchive"}
     /\ (op = "getDownloadInfo" =>
           dto.assetIds.some \/ dto.albumId.some \/ dto.userId.some)) =>
    /\ pc = "start" => calls = <<>>
    /\ pc # "start" =>
         /\ Cardinality(CallsNamed({"requirePermission"})) = 1
         /\ calls[1].fn = "requirePermission"
    /\ gate \in {"asked", "rejected"} => Len(calls) = 1
    /\ gate = "rejected" =>
         /\ pc = "done"
         /\ outcome = [kind |-> "thrown", error |-> "AccessDenied"]

C6_Witness ==
  /\ op = "getDownloadInfo" /\ outcome.kind = "returned"
  /\ Cardinality(CallsNamed({"getByAlbumId"})) >= 2
  /\ Cardinality(CallsNamed({"getByIds"})) >= 1

\* C7: with a threshold of 0 or less every asset seals an archive: the
\* result has one archive for each asset, each holding exactly one id.
C7_NonPositiveThresholdOnePerAsset ==
  (InfoReturned /\ dto.archiveSize.some /\ dto.archiveSize.val <= 0) =>
    /\ Len(outcome.value.archives) >= Len(Library)
    /\ \A i \in 1..Len(outcome.value.archives) :
         Len(outcome.value.archives[i].assetIds) = 1

\* the title the claim gives the entry of yearsAgo = k
ClaimedTitle(k) ==
  IF k = 1 THEN "1 year since..." ELSE ToString(k) \o " years since..."

\* the ids of the stored assets created k years before the request's date
IdsOfYearsAgo(k) ==
  LET found == SelectSeq(repo, LAMBDA a : a.fileCreatedAt + k = dto.timestamp)
  IN [i \in 1..Len(found) |-> [id |-> found[i].id]]

\* C8: with years = N >= 1 and every lookup succeeding, getMemoryLane
\* returns, whatever the order the lookups complete in, the entries for
\* yearsAgo = 1..N in ascending order without those that have no asset,
\* titled "1 year since..." and "k years since...".
C8_MemoryLaneInYearOrder ==
  (op = "getMemoryLane" /\ outcome.kind = "returned" /\ dto.years >= 1) =>
    outcome.value =
      SelectSeq([k \in 1..dto.years |->
                   [title |-> ClaimedTitle(k), assets |-> IdsOfYearsAgo(k)]],
                LAMBDA e : e.assets # <<>>)

C8_Witness ==
  /\ op = "getMemoryLane" /\ outcome.kind = "returned"
  /\ dto.years = 3 /\ settled = <<3, 1, 2>>
  /\ Len(outcome.value) = 2
  /\ outcome.value[1].title = "1 year since..."
  /\ outcome.value[2].title = "3 years since..."

\* C9: once a lookup of getMemoryLane has failed, the call has failed with
\* the error of the lookup that failed first; it never returns a list.
C9_FirstLookupErrorFailsAll ==
  (op = "getMemoryLane"
     /\ \E i \in 1..Len(requests) : requests[i].state = "rejected") =>
    LET failed == SelectSeq(settled, LAMBDA i : requests[i].state = "rejected")
    IN outcome = [kind |-> "thrown", error |-> requests[Head(failed)].error]

C9_Witness ==
  /\ op = "getMemoryLane" /\ outcome.kind = "thrown"
  /\ Len(requests) = 3
  /\ requests[1].state = "fulfilled"
  /\ requests[2].state = "rejected"
  /\ requests[3].state = "rejected"
  /\ settled = <<1, 3, 2>>

\* C10: the entry names passed to the zip writer in one downloadArchive
\* call are pairwise distinct.
C10_EntryNamesDistinct ==
  op = "downloadArchive" =>
    \A i, j \in 1..Len(EntryNames) : i # j => EntryNames[i] # EntryNames[j]

\* the base name <displayName><ext> of the i-th asset the store returned
BaseNameOf(i) == assets[i].originalFileName \o extname(assets[i].originalPath)

\* the name the claim gives the i-th asset: the k-th asset of a base name
\* is written as <displayName>+<k-1><ext>, the first under the base name
ClaimedEntryName(i) ==
  LET k == Cardinality({j \in 1..i : BaseNameOf(j) = BaseNameOf(i)})
  IN IF k = 1
       THEN BaseNameOf(i)
       ELSE assets[i].originalFileName \o "+" \o ToString(k - 1)
              \o extname(assets[i].originalPath)

\* C11: in one downloadArchive call the first asset of a base name is
\* written under the base name and the k-th one (k >= 2, in input order) as
\* <displayName>+<k-1><ext>; the counting starts anew in the call.
C11_EntryNamesCountPerBaseName ==
  (op = "downloadArchive" /\ pc = "done" /\ outcome.kind = "returned") =>
    /\ Len(EntryNames) = Len(assets)
    /\ \A i \in 1..Len(assets) : EntryNames[i] = ClaimedEntryName(i)

C11_Witness ==
  /\ op = "downloadArchive" /\ pc = "done"
  /\ Len(assets) = 3
  /\ \A i \in 1..3 : assets[i].originalFileName = "IMG_0001"
  /\ EntryNames = <<"IMG_0001.jpg", "IMG_0001+1.jpg", "IMG_0001+2.jpg">>

\* C12: downloadArchive fails with a not-found error and returns no stream
\* whenever one of the requested ids is absent from the store at read time.
C12_AbsentIdIsNotFound ==
  (op = "downloadArchive" /\ pc = "done" /\ gate = "granted"
     /\ \E i \in 1..Len(dto.assetIds) :
          \A k \in 1..Len(repo) : repo[k].id # dto.assetIds[i]) =>
    /\ outcome.kind = "thrown"
    /\ outcome.error = "NotFound"

\* C13: getMemoryLane with years <= 0 fails with the invalid-request error
\* instead of returning a list, and issues no getByDate lookup.
C13_NonPositiveYearsIsInvalidRequest ==
  (op = "getMemoryLane" /\ pc # "start" /\ dto.years <= 0) =>
    /\ outcome.kind = "thrown"
    /\ CallsNamed({"getByDate"}) = {}

\* how many of assetIds, albumId and userId the request supplies
Supplied ==
  Cardinality({x \in {"assetIds", "albumId", "userId"} :
                 \/ x = "assetIds" /\ dto.assetIds.some
                 \/ x = "albumId" /\ dto.albumId.some
                 \/ x = "userId" /\ dto.userId.some})

\* C14: with more than one of assetIds, albumId and userId supplied, one
\* mode is used, in the priority explicit ids, album, owner: only its
\* permission is checked and only its repository call is made.
C14_SelectionPriority ==
  (op = "getDownloadInfo" /\ Supplied > 1) =>
    LET perm == IF dto.assetIds.some THEN "ASSET_DOWNLOAD" ELSE "ALBUM_DOWNLOAD"
        read == IF dto.assetIds.some THEN "getByIds" ELSE "getByAlbumId"
        lower == IF dto.assetIds.some THEN {"getByAlbumId", "getByUserId"}
                 ELSE {"getByUserId"}
    IN /\ \A i \in CallsNamed({"requirePermission"}) : calls[i].arg = perm
       /\ CallsNamed(lower) = {}
       /\ gate = "granted" => calls[2].fn = read
       /\ dto.assetIds.some => Cardinality(CallsNamed({"getByIds"})) <= 2

C14_Witness ==
  /\ op = "getDownloadInfo" /\ outcome.kind = "returned"
  /\ dto.assetIds.some /\ dto.albumId.some /\ dto.userId.some
  /\ Len(Library) = MaxAssets
  /\ CallsNamed({"getByIds"}) # {}

\* C15: getMemoryLane with years = N >= 1 issues exactly N getByDate
\* lookups, one for each yearsAgo in 1..N with the date that many years
\* before the anchor, and all of them are started before any has completed.
C15_AllLookupsStartedFirst ==
  (op = "getMemoryLane" /\ pc # "start" /\ dto.years >= 1) =>
    /\ Len(calls) = dto.years
    /\ Len(requests) = dto.years
    /\ \A k \in 1..dto.years :
         Cardinality({i \in CallsNamed({"getByDate"}) :
                        calls[i].arg + k = dto.timestamp}) = 1

C15_Witness ==
  /\ op = "getMemoryLane" /\ pc = "awaitAll"
  /\ dto.years = MaxYears
  /\ settled = <<>>
  /\ Len(calls) = MaxYears

\* C16: an accumulator that has been pushed to archives is never changed
\* and never pushed again: every step leaves the size and the assetIds of
\* the accumulators already in the list as they are, and no two entries of
\* the list are the same accumulator.
C16_SealedArchivesAreFinal ==
  [][op = "getDownloadInfo" =>
       /\ \A i \in 1..Len(archives) :
            /\ archives'[i] = archives[i]
            /\ objs'[archives[i]] = objs[archives[i]]
       /\ \A i, j \in 1..Len(archives') :
            i # j => archives'[i] # archives'[j]]_vars

\* the ids held by the accumulators of getDownloadInfo
PackedIds == UNION {Range(objs[r].assetIds) : r \in 1..Len(objs)}

\* the page reads made so far, in call order
PageReads ==
  SelectSeq(calls, LAMBDA c : c.fn \in {"getByAlbumId", "getByUserId"})

\* C17: the read of page k+1 is not started before the work on page k (its
\* motion lookup and the packing of its assets) has finished: while the
\* request waits, exactly one page has been read beyond those fully packed,
\* and while the motion lookup of a page is pending no further page has
\* been requested; one page is held at a time.
C17_PagesReadOneAtATime ==
  (op = "getDownloadInfo" /\ ~dto.assetIds.some
     /\ pc \in {"awaitPage", "awaitMotion", "done"} /\ gate = "granted") =>
    /\ \A k \in 1..Len(PageReads) : PageReads[k].arg = (k - 1) * PAGINATION_SIZE
    /\ pc # "done" => Len(PageReads) * PAGINATION_SIZE = pager.skip + PAGINATION_SIZE
    /\ pc = "done" => Len(PageReads) * PAGINATION_SIZE = pager.skip
    /\ \A k \in 1..Min(pager.skip, Len(Library)) : Library[k].id \in PackedIds
    /\ pc = "awaitMotion" =>
         /\ calls[Len(calls)].fn = "getByIds"
         /\ Len(assets) <= PAGINATION_SIZE

C17_Witness ==
  /\ op = "getDownloadInfo" /\ pc = "awaitMotion"
  /\ pager.skip = PAGINATION_SIZE
  /\ Len(PageReads) = 2
  /\ pager.hasNextPage = FALSE

\* the ids of the page held by the loop of getDownloadInfo, in order
PageIds == [k \in 1..Len(assets) |-> assets[k].id]

\* the getByIds calls that are motion lookups: all but the page read of the
\* explicit-ids mode
MotionLookups ==
  Cardinality(CallsNamed({"getByIds"}))
    - (IF dto.assetIds.some /\ gate = "granted" THEN 1 ELSE 0)

\* the pages requested so far
PagesRead ==
  IF dto.assetIds.some
    THEN (IF gate = "granted" THEN 1 ELSE 0)
    ELSE Len(PageReads)

\* C18: a page causes at most one motion lookup, made before any of its
\* assets is packed and only when an asset of the page has a
\* livePhotoVideoId; the lookup requests only motion assets that are not in
\* the page already, so that no asset is in the working list twice.
C18_MotionLookupOnlyForMissing ==
  op = "getDownloadInfo" =>
    /\ pc = "awaitMotion" =>
         /\ \E k \in 1..Len(assets) : assets[k].livePhotoVideoId.some
         /\ Range(calls[Len(calls)].arg) \cap Range(PageIds) = {}
         /\ \A k \in 1..Len(assets) : assets[k].id \notin PackedIds
    /\ MotionLookups <= PagesRead
    /\ \A i, j \in 1..Len(assets) : i # j => assets[i].id # assets[j].id

\* the calls made to the zip writer after its creation, in call order
ZipWrites == SelectSeq(calls, LAMBDA c : c.fn \in {"addFile", "finalize"})

\* C19: a downloadArchive call that passes the access check makes one
\* add-entry call for each asset the store returned, in the store's order,
\* and then exactly one finalize call; no add-entry follows finalize.
C19_AddEveryAssetThenFinalize ==
  op = "downloadArchive" =>
    LET found == SelectSeq(repo, LAMBDA a : a.id \in Range(dto.assetIds))
    IN /\ outcome.kind = "returned" =>
            /\ Len(ZipWrites) = Len(found) + 1
            /\ \A i \in 1..Len(found) :
                 /\ ZipWrites[i].fn = "addFile"
                 /\ ZipWrites[i].arg.path = found[i].originalPath
            /\ ZipWrites[Len(ZipWrites)].fn = "finalize"
            /\ calls[Len(calls)].fn = "finalize"
       /\ outcome.kind # "returned" => ZipWrites = <<>>
       /\ Cardinality(CallsNamed({"finalize"})) <= 1

C19_Witness ==
  /\ op = "downloadArchive" /\ outcome.kind = "returned"
  /\ Len(ZipWrites) = 4
  /\ ZipWrites[1].arg.path # ZipWrites[2].arg.path
  /\ ZipWrites[2].arg.path # ZipWrites[3].arg.path
  /\ ZipWrites[1].arg.path = ZipWrites[3].arg.path
  /\ ZipWrites[4].fn = "finalize"

\* C20: no returned archive has an empty assetIds list; when the source
\* delivers no asset at all, the result has no archive and totalSize 0.
C20_NoEmptyArchive ==
  InfoReturned =>
    /\ \A i \in 1..Len(outcome.value.archives) :
         outcome.value.archives[i].assetIds # <<>>
    /\ Library = <<>> =>
         /\ outcome.value.archives = <<>>
         /\ outcome.value.totalSize = 0

C20_Witness ==
  /\ InfoReturned
  /\ Library = <<>>
  /\ Len(PageReads) = 1
  /\ outcome.value = [totalSize |-> 0, archives |-> <<>>]

=============================================================================
